---- MODULE Spec2Model ----
(***************************************************************************)
(* Model of the task-manager process list: the search filter, the sort,    *)
(* the bulk kill actions and the hand-off of the sysinfo snapshot between  *)
(* the UI thread and the background sampler thread, and the locking of the *)
(* system, settings, points and secs mutexes by the UI thread, the sampler *)
(* and the CPU-graph threads.                                              *)
(*                                                                         *)
(* Strings are sequences of one-character strings, so that to_lowercase,   *)
(* contains, the label parser and the regex are computed on characters.    *)
(***************************************************************************)
EXTENDS Integers, Sequences, FiniteSets, TLC

\* Largest number of process records in one snapshot of the system while the
\* UI thread and the sampler thread run.
MaxSnapshot == 2

\* Largest number of process records in the snapshot of one filter and sort
\* pass taken alone.
MaxPassSnapshot == 3

\* Largest number of CPU-graph threads spawned in one run: every selection of
\* the Graphs view makes a new GraphsState, whose first frame spawns one.
MaxGraphThreads == 2

\* Largest value of the secs counter of one GraphsState, which is the number
\* of points its thread has pushed.
MaxSecs == 2

----------------------------------------------------------------------------
\* Characters and strings

\* The characters used, in increasing code point order (String's Ord).
Chars ==
    << " ", "\"", "(", ")", ".",
       "0", "1", "2", "3", "4", "5", "6", "7", "8", "9", ":",
       "A", "B", "C", "D", "E", "F", "G", "H", "I", "J", "K", "L", "M",
       "N", "O", "P", "Q", "R", "S", "T", "U", "V", "W", "X", "Y", "Z",
       "\\",
       "a", "b", "c", "d", "e", "f", "g", "h", "i", "j", "k", "l", "m",
       "n", "o", "p", "q", "r", "s", "t", "u", "v", "w", "x", "y", "z" >>

CharCode(c) == CHOOSE i \in 1..Len(Chars) : Chars[i] = c

IsUpper(c) == CharCode(c) \in CharCode("A")..CharCode("Z")

IsLower(c) == CharCode(c) \in CharCode("a")..CharCode("z")

IsDigit(c) == CharCode(c) \in CharCode("0")..CharCode("9")

\* char::to_lowercase / char::to_uppercase on the characters above
CharLower(c) ==
    IF IsUpper(c) THEN Chars[CharCode(c) - CharCode("A") + CharCode("a")] ELSE c

CharUpper(c) ==
    IF IsLower(c) THEN Chars[CharCode(c) - CharCode("a") + CharCode("A")] ELSE c

\* str::to_lowercase, str::to_uppercase
to_lowercase(s) == [i \in 1..Len(s) |-> CharLower(s[i])]

to_uppercase(s) == [i \in 1..Len(s) |-> CharUpper(s[i])]

\* str::contains(&str): the needle occurs as a contiguous substring
contains(haystack, needle) ==
    \E i \in 0..(Len(haystack) - Len(needle)) :
        SubSeq(haystack, i + 1, i + Len(needle)) = needle

\* Ord for String: lexicographic by code point; a proper prefix is smaller
RECURSIVE StrLess(_, _)
StrLess(a, b) ==
    IF b = << >> THEN FALSE
    ELSE IF a = << >> THEN TRUE
    ELSE IF Head(a) = Head(b) THEN StrLess(Tail(a), Tail(b))
    ELSE CharCode(Head(a)) < CharCode(Head(b))

Drop(s, n) == SubSeq(s, n + 1, Len(s))

StartsWith(s, prefix) ==
    Len(s) >= Len(prefix) /\ SubSeq(s, 1, Len(prefix)) = prefix

----------------------------------------------------------------------------
\* regex::Regex, on the pattern syntax the search strings use: literal
\* characters, "." (any character) and groups "(" ... ")".

\* Nesting depth after each prefix of the pattern; -1 once a ")" has no "(".
RECURSIVE ParenDepth(_, _)
ParenDepth(pattern, depth) ==
    IF depth < 0 \/ pattern = << >> THEN depth
    ELSE ParenDepth(Tail(pattern),
                    CASE Head(pattern) = "(" -> depth + 1
                      [] Head(pattern) = ")" -> depth - 1
                      [] OTHER -> depth)

\* Regex::new(pattern).is_ok(): an unclosed or unopened group is a syntax error
RegexNewOk(pattern) == ParenDepth(pattern, 0) = 0

\* The pattern without its group delimiters (a group without alternation or
\* repetition matches what its content matches).
RegexAtoms(pattern) == SelectSeq(pattern, LAMBDA c : c \notin {"(", ")"})

\* Regex::is_match: unanchored search of a compiled pattern in the text
is_match(pattern, text) ==
    LET atoms == RegexAtoms(pattern)
    IN  \E i \in 0..(Len(text) - Len(atoms)) :
            \A j \in 1..Len(atoms) :
                atoms[j] = "." \/ atoms[j] = text[i + j]

----------------------------------------------------------------------------
\* parse_labels::parse_input (the grammar of the label query language)

Quote == "\""

Whitespace == {" "}

\* Number of leading characters of s that are not whitespace
RECURSIVE TokenLen(_)
TokenLen(s) ==
    IF s = << >> \/ Head(s) \in Whitespace THEN 0 ELSE 1 + TokenLen(Tail(s))

\* Number of leading whitespace characters of s
RECURSIVE SpaceLen(_)
SpaceLen(s) ==
    IF s = << >> \/ Head(s) \notin Whitespace THEN 0 ELSE 1 + SpaceLen(Tail(s))

\* The body of a quoted string, s being the input after the opening quote:
\* [ok, value, rest]; not ok when the closing quote is missing.
RECURSIVE QuotedBody(_, _)
QuotedBody(s, acc) ==
    IF s = << >> THEN [ok |-> FALSE, value |-> acc, rest |-> s]
    ELSE IF Head(s) = Quote THEN [ok |-> TRUE, value |-> acc, rest |-> Tail(s)]
    ELSE IF Head(s) = "\\" /\ Len(s) >= 2
         THEN QuotedBody(Drop(s, 2), Append(acc, s[2]))
    ELSE QuotedBody(Tail(s), Append(acc, Head(s)))

\* value := quoted-string | bare-token
ParseValue(s) ==
    IF s = << >> THEN [ok |-> FALSE, value |-> << >>, rest |-> s]
    ELSE IF Head(s) = Quote THEN QuotedBody(Tail(s), << >>)
    ELSE IF TokenLen(s) = 0 THEN [ok |-> FALSE, value |-> << >>, rest |-> s]
    ELSE [ok |-> TRUE, value |-> SubSeq(s, 1, TokenLen(s)),
          rest |-> Drop(s, TokenLen(s))]

\* str::parse::<usize> of a string of decimal digits
RECURSIVE DigitsValue(_, _)
DigitsValue(s, acc) ==
    IF s = << >> THEN acc
    ELSE DigitsValue(Tail(s), 10 * acc + (CharCode(Head(s)) - CharCode("0")))

IsNumber(s) == s # << >> /\ \A i \in 1..Len(s) : IsDigit(s[i])

LabelNames ==
    [Pid   |-> << "p", "i", "d", ":" >>,
     Owner |-> << "o", "w", "n", "e", "r", ":" >>,
     Name  |-> << "n", "a", "m", "e", ":" >>]

\* clause := label ':' value.  status is "ok", "nomatch" (no known label
\* starts here: nothing is consumed) or "err" (the value of a recognised
\* label is malformed).
ParseClause(s) ==
    IF \A l \in DOMAIN LabelNames : ~StartsWith(s, LabelNames[l])
    THEN [status |-> "nomatch", rest |-> s]
    ELSE LET l == CHOOSE k \in DOMAIN LabelNames : StartsWith(s, LabelNames[k])
             v == ParseValue(Drop(s, Len(LabelNames[l])))
         IN  IF ~v.ok THEN [status |-> "err", rest |-> s]
             ELSE IF l = "Pid"
             THEN IF IsNumber(v.value)
                  THEN [status |-> "ok", rest |-> v.rest,
                        label |-> [kind |-> "Pid", pid |-> DigitsValue(v.value, 0)]]
                  ELSE [status |-> "err", rest |-> s]
             ELSE [status |-> "ok", rest |-> v.rest,
                   label |-> [kind |-> l, name |-> v.value]]

\* (whitespace clause)*, s being the input after the clauses in acc
RECURSIVE ParseMore(_, _)
ParseMore(s, acc) ==
    IF SpaceLen(s) = 0 THEN [ok |-> TRUE, rest |-> s, labels |-> acc]
    ELSE LET c == ParseClause(Drop(s, SpaceLen(s)))
         IN  CASE c.status = "ok"      -> ParseMore(c.rest, Append(acc, c.label))
               [] c.status = "nomatch" -> [ok |-> TRUE, rest |-> s, labels |-> acc]
               [] OTHER                -> [ok |-> FALSE, rest |-> s, labels |-> acc]

\* parse_input: Ok((unconsumed input, labels)) or Err
parse_input(input) ==
    LET c == ParseClause(input)
    IN  CASE c.status = "ok"      -> ParseMore(c.rest, << c.label >>)
          [] c.status = "nomatch" -> [ok |-> TRUE, rest |-> input, labels |-> << >>]
          [] OTHER                -> [ok |-> FALSE, rest |-> input, labels |-> << >>]

----------------------------------------------------------------------------
\* sysinfo::System as the process list reads it

\* The pid of the task manager's own process, which every snapshot contains.
SelfPid == 1

NoUid == -1

\* The processes that can exist: display name and user id of each pid.
\* Process 3 has no user id, process 4 a user id that no user has.
ProcessTable ==
    [p \in 1..4 |->
        CASE p = 1 -> [name |-> << "a" >>,      user_id |-> 0]
          [] p = 2 -> [name |-> << "A" >>,      user_id |-> 1]
          [] p = 3 -> [name |-> << "a", "b" >>, user_id |-> NoUid]
          [] p = 4 -> [name |-> << "b" >>,      user_id |-> 7]]

AllPids == DOMAIN ProcessTable

\* System::users(): user id -> user name
Users == (0 :> << "r" >>) @@ (1 :> << "R" >>)

\* The iteration orders of a HashMap<Pid, Process> holding the given pids
OrdersOf(pids) ==
    { s \in [1..Cardinality(pids) -> pids] :
        \A i, j \in 1..Cardinality(pids) : i # j => s[i] # s[j] }

\* The snapshots of at most n processes that refresh_all can produce, each in
\* every iteration order
SnapshotsUpTo(n) ==
    UNION { OrdersOf(pids) :
            pids \in { q \in SUBSET AllPids :
                         SelfPid \in q /\ Cardinality(q) <= n } }

Snapshots == SnapshotsUpTo(MaxSnapshot)

SeqSet(s) == { s[i] : i \in 1..Len(s) }

\* The view of System that filtered_processes and sorted_processes read
SystemOf(processes) ==
    [processes |-> processes,
     name      |-> [p \in AllPids |-> ProcessTable[p].name],
     user_id   |-> [p \in AllPids |-> ProcessTable[p].user_id],
     users     |-> Users]

\* system.get_user_by_id(process.user_id().unwrap()).unwrap() does not panic
OwnerResolved(system, p) ==
    system.user_id[p] # NoUid /\ system.user_id[p] \in DOMAIN system.users

\* system.get_user_by_id(process.user_id().unwrap()).unwrap().name()
OwnerName(system, p) == system.users[system.user_id[p]]

----------------------------------------------------------------------------
\* ProcessListState::filtered_processes

\* As sensitiveness, but the string is never lower-cased
sensitiveness_verbatim(self, s) == s

sensitiveness(self, s) == IF self.case_sensitive THEN s ELSE to_lowercase(s)

Returned(list) == [panic |-> "none", list |-> list]

Panicked(cause) == [panic |-> cause, list |-> << >>]

\* One iteration of `for label in labels.1`: the filter of one clause
filter_label(self, system, label, processes) ==
    CASE label.kind = "Pid" ->
            Returned(SelectSeq(processes, LAMBDA p : p = label.pid))
      [] label.kind = "Owner" ->
            IF \E i \in 1..Len(processes) : ~OwnerResolved(system, processes[i])
            THEN Panicked("owner_filter")
            ELSE Returned(SelectSeq(processes, LAMBDA p :
                    contains(sensitiveness(self, OwnerName(system, p)),
                             sensitiveness(self, label.name))))
      [] label.kind = "Name" ->
            IF self.regex
            THEN IF ~RegexNewOk(label.name)
                 THEN Panicked("regex")
                 ELSE Returned(SelectSeq(processes, LAMBDA p :
                        is_match(label.name, system.name[p])))
            ELSE Returned(SelectSeq(processes, LAMBDA p :
                    contains(sensitiveness(self, system.name[p]),
                             sensitiveness(self, label.name))))

\* `for label in labels.1 { ... }` from the given list of processes
RECURSIVE filter_labels(_, _, _, _)
filter_labels(self, system, labels, processes) ==
    IF labels = << >> THEN Returned(processes)
    ELSE LET r == filter_label(self, system, Head(labels), processes)
         IN  IF r.panic # "none" THEN r
             ELSE filter_labels(self, system, Tail(labels), r.list)

\* As filtered_processes, but the regex flag alone selects the regex branch
filtered_processes_regex_first(self, system) ==
    IF self.regex
    THEN IF ~RegexNewOk(self.search)
         THEN Panicked("regex")
         ELSE Returned(SelectSeq(system.processes, LAMBDA p :
                is_match(self.search, system.name[p])))
    ELSE IF self.label_search
    THEN LET labels == parse_input(self.search)
         IN  IF ~labels.ok THEN Returned(<< >>)
             ELSE IF labels.rest # << >> THEN Returned(<< >>)
             ELSE filter_labels(self, system, labels.labels, system.processes)
    ELSE Returned(SelectSeq(system.processes, LAMBDA p :
            contains(sensitiveness(self, system.name[p]),
                     sensitiveness(self, self.search))))

\* As filtered_processes, but a query that does not parse filters nothing
filtered_processes_fail_open(self, system) ==
    IF self.regex /\ ~self.label_search
    THEN IF ~RegexNewOk(self.search)
         THEN Panicked("regex")
         ELSE Returned(SelectSeq(system.processes, LAMBDA p :
                is_match(self.search, system.name[p])))
    ELSE IF self.label_search
    THEN LET labels == parse_input(self.search)
         IN  filter_labels(self, system, labels.labels, system.processes)
    ELSE Returned(SelectSeq(system.processes, LAMBDA p :
            contains(sensitiveness(self, system.name[p]),
                     sensitiveness(self, self.search))))

\* [panic, list]: the processes kept by the search, in the order of
\* system.processes(), or the unwrap that panicked
filtered_processes(self, system) ==
    IF self.regex /\ ~self.label_search
    THEN IF ~RegexNewOk(self.search)
         THEN Panicked("regex")
         ELSE Returned(SelectSeq(system.processes, LAMBDA p :
                is_match(self.search, system.name[p])))
    ELSE IF self.label_search
    THEN LET labels == parse_input(self.search)
         IN  IF ~labels.ok THEN Returned(<< >>)
             ELSE IF labels.rest # << >> THEN Returned(<< >>)
             ELSE filter_labels(self, system, labels.labels, system.processes)
    ELSE Returned(SelectSeq(system.processes, LAMBDA p :
            contains(sensitiveness(self, system.name[p]),
                     sensitiveness(self, self.search))))

----------------------------------------------------------------------------
\* ProcessListState::sorted_processes

\* The key sort_by_key extracts from a record, wrapped in std::cmp::Reverse
\* in descending order
SortKey(self, system, p) ==
    [rev |-> (self.order = "Desc"),
     key |-> CASE self.sort = "Pid"   -> p
               [] self.sort = "Owner" -> sensitiveness(self, OwnerName(system, p))
               [] self.sort = "Name"  -> sensitiveness(self, system.name[p])]

\* Ord of the keys: integers for Pid, strings otherwise; Reverse swaps it
KeyLess(self, a, b) ==
    LET lo == IF a.rev THEN b.key ELSE a.key
        hi == IF a.rev THEN a.key ELSE b.key
    IN  IF self.sort = "Pid" THEN lo < hi ELSE StrLess(lo, hi)

\* As Insert, but x goes before the elements its key is equal to
RECURSIVE InsertBeforeEqual(_, _, _, _)
InsertBeforeEqual(self, system, sorted, x) ==
    IF sorted = << >> THEN << x >>
    ELSE IF ~KeyLess(self, SortKey(self, system, Head(sorted)), SortKey(self, system, x))
         THEN << x >> \o sorted
         ELSE << Head(sorted) >> \o InsertBeforeEqual(self, system, Tail(sorted), x)

\* x inserted into a sorted list before the first element with a larger key
RECURSIVE Insert(_, _, _, _)
Insert(self, system, sorted, x) ==
    IF sorted = << >> THEN << x >>
    ELSE IF KeyLess(self, SortKey(self, system, x), SortKey(self, system, Head(sorted)))
         THEN << x >> \o sorted
         ELSE << Head(sorted) >> \o Insert(self, system, Tail(sorted), x)

\* slice::sort_by_key with the key of self.sort and self.order
RECURSIVE sort_by_key(_, _, _)
sort_by_key(self, system, list) ==
    IF list = << >> THEN << >>
    ELSE Insert(self, system,
                sort_by_key(self, system, SubSeq(list, 1, Len(list) - 1)),
                list[Len(list)])

\* [panic, list]: the filtered processes in the order of self.sort and
\* self.order.  The sort extracts the key of every record once there are two
\* records to compare, and the owner key unwraps the owner.
sorted_processes(self, system) ==
    LET f == filtered_processes(self, system)
    IN  IF f.panic # "none" THEN f
        ELSE IF /\ self.sort = "Owner"
                /\ Len(f.list) >= 2
                /\ \E i \in 1..Len(f.list) : ~OwnerResolved(system, f.list[i])
        THEN Panicked("owner_sort")
        ELSE Returned(sort_by_key(self, system, f.list))

----------------------------------------------------------------------------
\* The search strings typed into the search field

SearchInputs ==
    { << >>,
      << "a" >>,
      << "A" >>,
      << "b" >>,
      << "." >>,
      << "(" >>,
      << "p", "i", "d", ":", "1" >>,
      << "p", "i", "d", ":", "3" >>,
      << "p", "i", "d", ":", "x" >>,
      << "p", "i", "d", ":", "1", " ", "x" >>,
      << "x", ":", "1" >>,
      << "o", "w", "n", "e", "r", ":", "r" >>,
      << "o", "w", "n", "e", "r", ":", "." >>,
      << "o", "w", "n", "e", "r", ":", "(" >>,
      << "n", "a", "m", "e", ":", "A" >>,
      << "n", "a", "m", "e", ":", "(" >>,
      << "n", "a", "m", "e", ":", "\"", "a" >>,
      << "n", "a", "m", "e", ":", "\"", "a", "\"" >>,
      << "p", "i", "d", ":", "1", " ", "o", "w", "n", "e", "r", ":", "r" >>,
      << "o", "w", "n", "e", "r", ":", "r", " ", "p", "i", "d", ":", "1" >>,
      << "n", "a", "m", "e", ":", "a", " ", "o", "w", "n", "e", "r", ":", "R" >> }

\* The search strings typed while the sampler runs
TypedInputs ==
    { << >>,
      << "a" >>,
      << "(" >>,
      << "p", "i", "d", ":", "1" >>,
      << "o", "w", "n", "e", "r", ":", "r" >>,
      << "n", "a", "m", "e", ":", "(" >>,
      << "p", "i", "d", ":", "1", " ", "o", "w", "n", "e", "r", ":", "r" >> }

\* System::SUPPORTED_SIGNALS, by what the signal does to the task manager
\* itself: Kill and Term end it, Continue does not.
Signals == {"Kill", "Term", "Continue"}

FatalToSelf(signal) == signal \in {"Kill", "Term"}

\* The values the settings view can give update_interval_ms
Intervals == {1000, 500}

----------------------------------------------------------------------------
\* State

VARIABLES
    view,               \* TaskManager.view: "Processes", "Graphs" or "Settings"
    search,             \* ProcessListState.search
    regex,              \* ProcessListState.regex
    label_search,       \* ProcessListState.label_search
    first,              \* ProcessListState.first
    sort,               \* ProcessListState.sort: "Pid", "Owner" or "Name"
    order,              \* ProcessListState.order: "Asc" or "Desc"
    case_sensitive,     \* ProcessListState.case_sensitive
    update_interval_ms, \* Settings.update_interval_ms
    procs,              \* system.processes(), in its iteration order
    sysLock,            \* holder of the system mutex: "free", "ui", "sampler"
                        \* or "graph"
    settingsLock,       \* holder of the settings mutex: "free", "ui", "sampler"
    pointsLock,         \* per GraphsState, the holder of its points mutex:
                        \* "free", "ui" or "graph"
    secsLock,           \* per GraphsState, the holder of its secs mutex:
                        \* "free" or "graph"
    graphPc,            \* per GraphsState, the position of its thread
    secs,               \* per GraphsState, the value of *secs
    cur,                \* the GraphsState of TaskManager.view, by the number
                        \* of its thread; NoThread while thread is None
    plot_clicked,       \* GraphsState.plot_clicked
    uiPc,               \* position of the UI thread in TaskManager::update
    samplerPc,          \* position of the sampler thread in its loop
    processes,          \* the local `processes` of process_list_view
    passSnapshot,       \* system.processes() when the pass took the mutex
    closing,            \* frame.close() was called in this frame
    bulk,               \* the signal of the bulk action of this frame
    killed,             \* the pids the bulk action of this frame signalled
    panic               \* the unwrap that panicked: "none" or its cause

vars ==
    << view, search, regex, label_search, first, sort, order, case_sensitive,
       update_interval_ms, procs, sysLock, uiPc, samplerPc, processes,
       passSnapshot, closing, bulk, killed, panic, settingsLock, pointsLock,
       secsLock, graphPc, secs, cur, plot_clicked >>

graphVars == << pointsLock, secsLock, graphPc, secs, cur, plot_clicked >>

listVars == << search, regex, label_search, first, sort, order, case_sensitive >>

\* The fields of ProcessListState that filtered_processes and
\* sorted_processes read
Self ==
    [search |-> search, regex |-> regex, label_search |-> label_search,
     sort |-> sort, order |-> order, case_sensitive |-> case_sensitive]

System == SystemOf(procs)

\* The process runs: it has not panicked, been closed or been killed
Alive == uiPc \notin {"panicked", "closed", "killed"}

\* GraphsState.thread is None
NoThread == 0

\* The graph threads, numbered in the order of their spawn
GraphThreads == 1 .. MaxGraphThreads

\* GraphsState::default()
DefaultGraphs ==
    /\ cur' = NoThread
    /\ plot_clicked' = FALSE

\* No GraphsState was made yet: no thread runs, every mutex is free
InitGraphs ==
    /\ settingsLock = "free"
    /\ pointsLock = [i \in GraphThreads |-> "free"]
    /\ secsLock = [i \in GraphThreads |-> "free"]
    /\ graphPc = [i \in GraphThreads |-> "unspawned"]
    /\ secs = [i \in GraphThreads |-> 0]
    /\ cur = NoThread
    /\ plot_clicked = FALSE

\* As DefaultList, but the default list is sorted by name
DefaultListByName ==
    /\ search' = << >>
    /\ regex' = FALSE
    /\ label_search' = FALSE
    /\ first' = TRUE
    /\ sort' = "Name"
    /\ order' = "Asc"
    /\ case_sensitive' = FALSE

\* ProcessListState::default()
DefaultList ==
    /\ search' = << >>
    /\ regex' = FALSE
    /\ label_search' = FALSE
    /\ first' = TRUE
    /\ sort' = "Pid"
    /\ order' = "Asc"
    /\ case_sensitive' = FALSE

\* TaskManager::default() and the spawn of the sampler in TaskManager::new
Init ==
    /\ view = "Processes"
    /\ search = << >>
    /\ regex = FALSE
    /\ label_search = FALSE
    /\ first = TRUE
    /\ sort = "Pid"
    /\ order = "Asc"
    /\ case_sensitive = FALSE
    /\ update_interval_ms = 1000
    /\ procs \in Snapshots
    /\ sysLock = "free"
    /\ uiPc = "top_panel"
    /\ samplerPc = "interval"
    /\ processes = << >>
    /\ passSnapshot = << >>
    /\ closing = FALSE
    /\ bulk = "none"
    /\ killed = << >>
    /\ panic = "none"
    /\ InitGraphs

----------------------------------------------------------------------------
\* The UI thread: TaskManager::update

\* TaskManager::top_panel: the File, Views and Help menus
TopPanel(button) ==
    /\ uiPc = "top_panel"
    /\ uiPc' = "view"
    /\ CASE button = "Settings" ->
                /\ view' = "Settings"
                /\ DefaultList
                /\ DefaultGraphs
                /\ UNCHANGED closing
         [] button = "Processes" ->
                /\ view' = "Processes"
                /\ DefaultList
                /\ DefaultGraphs
                /\ UNCHANGED closing
         [] button = "Graphs" ->
                /\ \E i \in GraphThreads : graphPc[i] = "unspawned"
                /\ view' = "Graphs"
                /\ DefaultList
                /\ DefaultGraphs
                /\ UNCHANGED closing
         [] button \in {"Quit", "Help"} ->
                closing' = TRUE
                /\ UNCHANGED << view, listVars, cur, plot_clicked >>
         [] OTHER ->
                UNCHANGED << view, listVars, closing, cur, plot_clicked >>
    /\ UNCHANGED << settingsLock, pointsLock, secsLock, graphPc, secs >>
    /\ UNCHANGED << update_interval_ms, procs, sysLock, samplerPc, processes,
                    passSnapshot, bulk, killed, panic >>

\* The end of update: eframe closes the window once frame.close() was called
FrameEnd == IF closing THEN "closed" ELSE "top_panel"

\* update, View::Settings: `self.settings.lock().unwrap()`
SettingsLock ==
    /\ uiPc = "view"
    /\ view = "Settings"
    /\ settingsLock = "free"
    /\ settingsLock' = "ui"
    /\ uiPc' = "settings_view"
    /\ UNCHANGED graphVars
    /\ UNCHANGED << view, listVars, update_interval_ms, procs, sysLock,
                    samplerPc, processes, passSnapshot, closing, bulk,
                    killed, panic >>

\* Settings::settings_view on the locked settings; the guard is dropped at
\* the end of the statement
SettingsView(interval) ==
    /\ uiPc = "settings_view"
    /\ update_interval_ms' = interval
    /\ settingsLock' = "free"
    /\ uiPc' = FrameEnd
    /\ UNCHANGED graphVars
    /\ UNCHANGED << view, listVars, procs, sysLock, samplerPc, processes,
                    passSnapshot, closing, bulk, killed, panic >>

\* GraphsState::graphs_view as one step of the frame.  The view and the
\* thread it spawns keep their data in GraphsState's own points and secs; of
\* the process list and the snapshot the thread only reads the system, under
\* its mutex.  GraphsSpawn to GraphsPlot below are the same view lock by
\* lock, with the thread.
GraphsView ==
    /\ uiPc = "view"
    /\ view = "Graphs"
    /\ uiPc' = FrameEnd
    /\ UNCHANGED << settingsLock, graphVars >>
    /\ UNCHANGED << view, listVars, update_interval_ms, procs, sysLock,
                    samplerPc, processes, passSnapshot, closing, bulk,
                    killed, panic >>

\* The number the next spawned graph thread gets
FreeThread ==
    CHOOSE i \in GraphThreads :
        /\ graphPc[i] = "unspawned"
        /\ \A j \in GraphThreads : graphPc[j] = "unspawned" => i <= j

\* graphs_view, lock by lock: `if self.thread.is_none() { ... }` spawns the
\* thread of this GraphsState
GraphsSpawn ==
    /\ uiPc = "view"
    /\ view = "Graphs"
    /\ IF cur = NoThread
       THEN /\ cur' = FreeThread
            /\ graphPc' = [graphPc EXCEPT ![FreeThread] = "sleep"]
       ELSE UNCHANGED << cur, graphPc >>
    /\ uiPc' = "lock_points"
    /\ UNCHANGED << settingsLock, pointsLock, secsLock, secs, plot_clicked >>
    /\ UNCHANGED << view, listVars, update_interval_ms, procs, sysLock,
                    samplerPc, processes, passSnapshot, closing, bulk,
                    killed, panic >>

\* `let points = self.points.lock().unwrap();`
GraphsLockPoints ==
    /\ uiPc = "lock_points"
    /\ pointsLock[cur] = "free"
    /\ pointsLock' = [pointsLock EXCEPT ![cur] = "ui"]
    /\ uiPc' = "lock_secs"
    /\ UNCHANGED << settingsLock, secsLock, graphPc, secs, cur, plot_clicked >>
    /\ UNCHANGED << view, listVars, update_interval_ms, procs, sysLock,
                    samplerPc, processes, passSnapshot, closing, bulk,
                    killed, panic >>

\* `let secs = self.secs.lock().unwrap().to_owned();` with the points held;
\* the guard of secs is dropped at the end of the statement
GraphsReadSecs ==
    /\ uiPc = "lock_secs"
    /\ secsLock[cur] = "free"
    /\ uiPc' = "plot"
    /\ UNCHANGED << settingsLock, graphVars >>
    /\ UNCHANGED << view, listVars, update_interval_ms, procs, sysLock,
                    samplerPc, processes, passSnapshot, closing, bulk,
                    killed, panic >>

\* The plot, and the end of the closure, which drops the guard of points
GraphsPlot(clicked) ==
    /\ uiPc = "plot"
    /\ plot_clicked' = (plot_clicked \/ clicked)
    /\ pointsLock' = [pointsLock EXCEPT ![cur] = "free"]
    /\ uiPc' = FrameEnd
    /\ UNCHANGED << settingsLock, secsLock, graphPc, secs, cur >>
    /\ UNCHANGED << view, listVars, update_interval_ms, procs, sysLock,
                    samplerPc, processes, passSnapshot, closing, bulk,
                    killed, panic >>

\* As LockSystem, but the pass starts without holding the system mutex
LockSystemUnlocked ==
    /\ uiPc = "view"
    /\ view = "Processes"
    /\ passSnapshot' = procs
    /\ uiPc' = "sorted_processes"
    /\ UNCHANGED << settingsLock, graphVars >>
    /\ UNCHANGED << view, listVars, update_interval_ms, procs, sysLock,
                    samplerPc, processes, closing, bulk, killed, panic >>

\* process_list_view: `let system = system.lock().unwrap();`
LockSystem ==
    /\ uiPc = "view"
    /\ view = "Processes"
    /\ sysLock = "free"
    /\ sysLock' = "ui"
    /\ passSnapshot' = procs
    /\ uiPc' = "sorted_processes"
    /\ UNCHANGED << settingsLock, graphVars >>
    /\ UNCHANGED << view, listVars, update_interval_ms, procs, samplerPc,
                    processes, closing, bulk, killed, panic >>

\* process_list_view: `let processes = self.sorted_processes(&system);`
SortedProcesses ==
    /\ uiPc = "sorted_processes"
    /\ LET r == sorted_processes(Self, System)
       IN  IF r.panic # "none"
           THEN /\ panic' = r.panic
                /\ uiPc' = "panicked"
                /\ UNCHANGED processes
           ELSE /\ processes' = r.list
                /\ uiPc' = "menu_bar"
                /\ UNCHANGED panic
    /\ UNCHANGED << settingsLock, graphVars >>
    /\ UNCHANGED << view, listVars, update_interval_ms, procs, sysLock,
                    samplerPc, passSnapshot, closing, bulk, killed >>

\* As kill_all, but the loop runs over every process of the system
kill_all_of_system(list, signal) ==
    IF FatalToSelf(signal) /\ \E i \in 1..Len(procs) : procs[i] = SelfPid
    THEN SubSeq(procs, 1, CHOOSE i \in 1..Len(procs) : procs[i] = SelfPid)
    ELSE procs

\* `for (_, process) in processes.iter() { process.kill_with(signal); }`:
\* the pids signalled, in order.  The loop ends with the task manager when
\* the signal it sends to its own process is fatal.
kill_all(list, signal) ==
    IF FatalToSelf(signal) /\ \E i \in 1..Len(list) : list[i] = SelfPid
    THEN SubSeq(list, 1, CHOOSE i \in 1..Len(list) : list[i] = SelfPid)
    ELSE list

\* ProcessListState::menu_bar: the search field, the three checkboxes and
\* the "Kill all" and "Kill all with" buttons
MenuBar(event) ==
    /\ uiPc = "menu_bar"
    /\ first' = FALSE
    /\ CASE event.kind = "edit" ->
                /\ search' = event.text
                /\ UNCHANGED << regex, label_search, case_sensitive, bulk, killed >>
         [] event.kind = "regex" ->
                /\ regex' = ~regex
                /\ UNCHANGED << search, label_search, case_sensitive, bulk, killed >>
         [] event.kind = "label_search" ->
                /\ label_search' = ~label_search
                /\ UNCHANGED << search, regex, case_sensitive, bulk, killed >>
         [] event.kind = "case_sensitive" ->
                /\ case_sensitive' = ~case_sensitive
                /\ UNCHANGED << search, regex, label_search, bulk, killed >>
         [] event.kind = "kill" ->
                /\ bulk' = event.signal
                /\ killed' = kill_all(processes, event.signal)
                /\ UNCHANGED << search, regex, label_search, case_sensitive >>
         [] OTHER ->
                UNCHANGED << search, regex, label_search, case_sensitive, bulk, killed >>
    /\ uiPc' = IF /\ event.kind = "kill"
                  /\ FatalToSelf(event.signal)
                  /\ SelfPid \in SeqSet(processes)
               THEN "killed" ELSE "table"
    /\ UNCHANGED << settingsLock, graphVars >>
    /\ UNCHANGED << view, sort, order, update_interval_ms, procs, sysLock,
                    samplerPc, processes, passSnapshot, closing, panic >>

MenuEvents ==
    { [kind |-> k] : k \in {"none", "regex", "label_search", "case_sensitive"} }
    \cup { [kind |-> "edit", text |-> t] : t \in TypedInputs }
    \cup { [kind |-> "kill", signal |-> s] : s \in Signals }

\* impl Not for Order
Not(o) == IF o = "Asc" THEN "Desc" ELSE "Asc"

\* As header_click, but the direction is only ever flipped
header_click_always_flip(s, o, column) ==
    [sort |-> column, order |-> Not(o)]

\* ProcessListState::table: the click handler of a column header
header_click(s, o, column) ==
    [sort |-> column, order |-> IF s = column THEN Not(o) ELSE "Asc"]

\* ProcessListState::table: the then the body that renders the pid,
\* the owner and the name of every row; process_list_view then returns and
\* drops the guard of the system mutex
Table(column) ==
    /\ uiPc = "table"
    /\ IF column = "none"
       THEN UNCHANGED << sort, order >>
       ELSE /\ sort' = header_click(sort, order, column).sort
            /\ order' = header_click(sort, order, column).order
    /\ IF \E i \in 1..Len(processes) : ~OwnerResolved(System, processes[i])
       THEN /\ panic' = "owner_render"
            /\ uiPc' = "panicked"
            /\ UNCHANGED << sysLock, passSnapshot, processes, bulk, killed >>
       ELSE /\ sysLock' = "free"
            /\ passSnapshot' = << >>
            /\ processes' = << >>
            /\ bulk' = "none"
            /\ killed' = << >>
            /\ uiPc' = FrameEnd
            /\ UNCHANGED panic
    /\ UNCHANGED << settingsLock, graphVars >>
    /\ UNCHANGED << view, search, regex, label_search, first, case_sensitive,
                    update_interval_ms, procs, samplerPc, closing >>

----------------------------------------------------------------------------
\* The sampler thread spawned by TaskManager::new

\* `let settings = settings.lock().unwrap();`
SamplerLockSettings ==
    /\ Alive
    /\ samplerPc = "interval"
    /\ settingsLock = "free"
    /\ settingsLock' = "sampler"
    /\ samplerPc' = "read_interval"
    /\ UNCHANGED graphVars
    /\ UNCHANGED << view, listVars, update_interval_ms, procs, sysLock, uiPc,
                    processes, passSnapshot, closing, bulk, killed, panic >>

\* `settings.update_interval_ms` is the value of the block, at whose end the
\* guard is dropped
SamplerInterval ==
    /\ Alive
    /\ samplerPc = "read_interval"
    /\ settingsLock' = "free"
    /\ samplerPc' = "sleep"
    /\ UNCHANGED graphVars
    /\ UNCHANGED << view, listVars, update_interval_ms, procs, sysLock, uiPc,
                    processes, passSnapshot, closing, bulk, killed, panic >>

\* `std::thread::sleep(...)`
SamplerSleep ==
    /\ Alive
    /\ samplerPc = "sleep"
    /\ samplerPc' = "lock"
    /\ UNCHANGED << settingsLock, graphVars >>
    /\ UNCHANGED << view, listVars, update_interval_ms, procs, sysLock, uiPc,
                    processes, passSnapshot, closing, bulk, killed, panic >>

\* `system.lock().unwrap()`
SamplerLock ==
    /\ Alive
    /\ samplerPc = "lock"
    /\ sysLock = "free"
    /\ sysLock' = "sampler"
    /\ samplerPc' = "remove_dead"
    /\ UNCHANGED << settingsLock, graphVars >>
    /\ UNCHANGED << view, listVars, update_interval_ms, procs, uiPc, processes,
                    passSnapshot, closing, bulk, killed, panic >>

\* refresh_all, first half: the processes that ended leave the map
SamplerRemoveDead(alive) ==
    /\ Alive
    /\ samplerPc = "remove_dead"
    /\ SelfPid \in alive
    /\ procs' = SelectSeq(procs, LAMBDA p : p \in alive)
    /\ samplerPc' = "add_new"
    /\ UNCHANGED << settingsLock, graphVars >>
    /\ UNCHANGED << view, listVars, update_interval_ms, sysLock, uiPc, processes,
                    passSnapshot, closing, bulk, killed, panic >>

\* refresh_all, second half: the processes that started enter the map; the
\* guard is dropped at the end of the statement
SamplerAddNew(snapshot) ==
    /\ Alive
    /\ samplerPc = "add_new"
    /\ SeqSet(procs) \subseteq SeqSet(snapshot)
    /\ procs' = snapshot
    /\ sysLock' = "free"
    /\ samplerPc' = "interval"
    /\ UNCHANGED << settingsLock, graphVars >>
    /\ UNCHANGED << view, listVars, update_interval_ms, uiPc, processes,
                    passSnapshot, closing, bulk, killed, panic >>

----------------------------------------------------------------------------
\* The thread spawned by graphs_view, one for every GraphsState

\* As GraphLockOrder, but secs is locked before points
GraphLockOrderSecsFirst == << "system", "secs", "points" >>

\* The order of the three lock() calls of the loop body
GraphLockOrder == << "system", "points", "secs" >>

\* The place of a mutex in the loop body
GraphLockPlace(m) == CHOOSE k \in 1 .. 3 : GraphLockOrder[k] = m

\* The position after the lock of m: the next lock, or the push
GraphAfterLock(m) ==
    IF GraphLockPlace(m) = 3 THEN "push" ELSE GraphLockOrder[GraphLockPlace(m) + 1]

\* Thread i is past its lock of m and before the end of the loop body
GraphHolds(i, m) ==
    \/ graphPc[i] = "push"
    \/ /\ graphPc[i] \in {"system", "points", "secs"}
       /\ GraphLockPlace(graphPc[i]) > GraphLockPlace(m)

\* `std::thread::sleep(std::time::Duration::from_secs(1));`
GraphSleep(i) ==
    /\ Alive
    /\ graphPc[i] = "sleep"
    /\ secs[i] < MaxSecs
    /\ graphPc' = [graphPc EXCEPT ![i] = GraphLockOrder[1]]
    /\ UNCHANGED << settingsLock, pointsLock, secsLock, secs, cur, plot_clicked >>
    /\ UNCHANGED << view, listVars, update_interval_ms, procs, sysLock, uiPc,
                    samplerPc, processes, passSnapshot, closing, bulk,
                    killed, panic >>

\* `let system = system.lock().unwrap();`
GraphLockSystem(i) ==
    /\ Alive
    /\ graphPc[i] = "system"
    /\ sysLock = "free"
    /\ sysLock' = "graph"
    /\ graphPc' = [graphPc EXCEPT ![i] = GraphAfterLock("system")]
    /\ UNCHANGED << settingsLock, pointsLock, secsLock, secs, cur, plot_clicked >>
    /\ UNCHANGED << view, listVars, update_interval_ms, procs, uiPc,
                    samplerPc, processes, passSnapshot, closing, bulk,
                    killed, panic >>

\* `let mut points = points.lock().unwrap();`
GraphLockPoints(i) ==
    /\ Alive
    /\ graphPc[i] = "points"
    /\ pointsLock[i] = "free"
    /\ pointsLock' = [pointsLock EXCEPT ![i] = "graph"]
    /\ graphPc' = [graphPc EXCEPT ![i] = GraphAfterLock("points")]
    /\ UNCHANGED << settingsLock, secsLock, secs, cur, plot_clicked >>
    /\ UNCHANGED << view, listVars, update_interval_ms, procs, sysLock, uiPc,
                    samplerPc, processes, passSnapshot, closing, bulk,
                    killed, panic >>

\* `let mut secs = secs.lock().unwrap();`
GraphLockSecs(i) ==
    /\ Alive
    /\ graphPc[i] = "secs"
    /\ secsLock[i] = "free"
    /\ secsLock' = [secsLock EXCEPT ![i] = "graph"]
    /\ graphPc' = [graphPc EXCEPT ![i] = GraphAfterLock("secs")]
    /\ UNCHANGED << settingsLock, pointsLock, secs, cur, plot_clicked >>
    /\ UNCHANGED << view, listVars, update_interval_ms, procs, sysLock, uiPc,
                    samplerPc, processes, passSnapshot, closing, bulk,
                    killed, panic >>

\* `points.push(plot_point); ctx.request_repaint(); *secs += 1;` and the end
\* of the loop body, which drops the three guards
GraphPush(i) ==
    /\ Alive
    /\ graphPc[i] = "push"
    /\ secs' = [secs EXCEPT ![i] = secs[i] + 1]
    /\ sysLock' = "free"
    /\ pointsLock' = [pointsLock EXCEPT ![i] = "free"]
    /\ secsLock' = [secsLock EXCEPT ![i] = "free"]
    /\ graphPc' = [graphPc EXCEPT ![i] = "sleep"]
    /\ UNCHANGED << settingsLock, cur, plot_clicked >>
    /\ UNCHANGED << view, listVars, update_interval_ms, procs, uiPc,
                    samplerPc, processes, passSnapshot, closing, bulk,
                    killed, panic >>

----------------------------------------------------------------------------

Next ==
    \/ \E button \in {"none", "Settings", "Quit", "Processes", "Graphs", "Help"} :
            TopPanel(button)
    \/ SettingsLock
    \/ \E interval \in Intervals : SettingsView(interval)
    \/ GraphsView
    \/ LockSystem
    \/ SortedProcesses
    \/ \E event \in MenuEvents : MenuBar(event)
    \/ \E column \in {"none", "Pid", "Owner", "Name"} : Table(column)
    \/ SamplerLockSettings
    \/ SamplerInterval
    \/ SamplerSleep
    \/ SamplerLock
    \/ \E alive \in SUBSET AllPids : SamplerRemoveDead(alive)
    \/ \E snapshot \in Snapshots : SamplerAddNew(snapshot)

Spec == Init /\ [][Next]_vars

----------------------------------------------------------------------------
\* One filter and sort pass taken alone: the UI thread holds the system mutex
\* and is about to call sorted_processes, with any search string, flags,
\* sort column, sort order and snapshot.

InitPass ==
    /\ view = "Processes"
    /\ search \in SearchInputs
    /\ regex \in BOOLEAN
    /\ label_search \in BOOLEAN
    /\ first = FALSE
    /\ sort \in {"Pid", "Owner", "Name"}
    /\ order \in {"Asc", "Desc"}
    /\ case_sensitive \in BOOLEAN
    /\ update_interval_ms = 1000
    /\ procs \in SnapshotsUpTo(MaxPassSnapshot)
    /\ sysLock = "ui"
    /\ uiPc = "sorted_processes"
    /\ samplerPc = "lock"
    /\ processes = << >>
    /\ passSnapshot = procs
    /\ closing = FALSE
    /\ bulk = "none"
    /\ killed = << >>
    /\ panic = "none"
    /\ InitGraphs

NextPass == SortedProcesses

SpecPass == InitPass /\ [][NextPass]_vars

----------------------------------------------------------------------------
\* The three kinds of thread and the four kinds of mutex, lock by lock: the
\* UI thread in its three views, the sampler, and the graph threads.  The
\* process list is left as it starts and the system holds the task manager's
\* own process only, so that no pass panics.

InitLocks == Init /\ procs = << SelfPid >>

NextLocks ==
    \/ \E button \in {"none", "Settings", "Quit", "Processes", "Graphs", "Help"} :
            TopPanel(button)
    \/ SettingsLock
    \/ \E interval \in Intervals : SettingsView(interval)
    \/ GraphsSpawn
    \/ GraphsLockPoints
    \/ GraphsReadSecs
    \/ \E clicked \in BOOLEAN : GraphsPlot(clicked)
    \/ LockSystem
    \/ SortedProcesses
    \/ MenuBar([kind |-> "none"])
    \/ Table("none")
    \/ SamplerLockSettings
    \/ SamplerInterval
    \/ SamplerSleep
    \/ SamplerLock
    \/ SamplerRemoveDead(AllPids)
    \/ SamplerAddNew(<< SelfPid >>)
    \/ \E i \in GraphThreads : GraphSleep(i)
    \/ \E i \in GraphThreads : GraphLockSystem(i)
    \/ \E i \in GraphThreads : GraphLockPoints(i)
    \/ \E i \in GraphThreads : GraphLockSecs(i)
    \/ \E i \in GraphThreads : GraphPush(i)

SpecLocks == InitLocks /\ [][NextLocks]_vars

----------------------------------------------------------------------------
\* Properties

\* The label parser rejects the string: Err, or Ok with unconsumed input
Malformed(s) == ~parse_input(s).ok \/ parse_input(s).rest # << >>

WellFormed(s) == ~Malformed(s)

\* C1: in label-search mode a search string that the label parser rejects
\* (an error, or unconsumed trailing input) makes filtered_processes return
\* the empty sequence, whatever the snapshot, and the pass shows no record.
C1_MalformedLabelQueryMatchesNothing ==
    (label_search /\ Malformed(search)) =>
        /\ filtered_processes(Self, System) = Returned(<< >>)
        /\ uiPc # "panicked"
        /\ (uiPc = "menu_bar" => processes = << >>)

\* A pass over two or more records has run on a label query that does not
\* parse, and has kept none of them
C1_Witness ==
    /\ uiPc = "menu_bar"
    /\ label_search
    /\ Malformed(search)
    /\ Len(procs) >= 2
    /\ processes = << >>

\* C2: a search string that is not a valid regular expression never aborts
\* the refresh pass, in plain regex mode or in a name: clause of label mode.
C2_InvalidRegexNeverAborts == panic # "regex"

\* C3: a record whose owner cannot be resolved is never a fatal error of the
\* filter and sort pass.
C3_UnresolvedOwnerNeverFatal == panic \notin {"owner_filter", "owner_sort"}

\* C4: a click on the header of the active sort column keeps the column and
\* flips the direction; a click on the header of another column makes that
\* column active with direction Asc, whatever the direction was.
C4_HeaderClickToggle ==
    [][\A column \in {"Pid", "Owner", "Name"} :
          Table(column) =>
              /\ sort' = column
              /\ order' = IF sort = column
                          THEN (IF order = "Asc" THEN "Desc" ELSE "Asc")
                          ELSE "Asc"]_vars

\* The Owner header was clicked twice in a row
C4_Witness == sort = "Owner" /\ order = "Desc"

\* The rearrangements of a sequence
Perms(s) ==
    { [i \in 1..Len(s) |-> s[f[i]]] :
        f \in { g \in [1..Len(s) -> 1..Len(s)] :
                  \A i, j \in 1..Len(s) : i # j => g[i] # g[j] } }

\* C5: for a well-formed label query the records filtered_processes returns
\* are the intersection of the match sets of the clauses, each evaluated
\* alone on the snapshot, and every order of the clauses returns the same
\* records.
C5_LabelQueryIsIntersection ==
    (label_search /\ WellFormed(search)) =>
        LET labels == parse_input(search).labels
            alone(i) == filter_labels(Self, System, << labels[i] >>, procs)
            r == filtered_processes(Self, System)
        IN  /\ r.panic = "none"
            /\ \A i \in 1..Len(labels) : alone(i).panic = "none"
            /\ SeqSet(r.list) =
                   { p \in SeqSet(procs) :
                       \A i \in 1..Len(labels) : p \in SeqSet(alone(i).list) }
            /\ \A perm \in Perms(labels) :
                   LET q == filter_labels(Self, System, perm, procs)
                   IN  q.panic = "none" /\ SeqSet(q.list) = SeqSet(r.list)

\* One clause of a label query on one record: pid by number, owner: by
\* literal containment, name: by regex under the regex flag and by literal
\* containment otherwise
ClauseMatches(label, p) ==
    CASE label.kind = "Pid" -> p = label.pid
      [] label.kind = "Owner" ->
            /\ OwnerResolved(System, p)
            /\ IF case_sensitive
               THEN contains(OwnerName(System, p), label.name)
               ELSE contains(to_lowercase(OwnerName(System, p)),
                             to_lowercase(label.name))
      [] label.kind = "Name" ->
            IF regex
            THEN is_match(label.name, ProcessTable[p].name)
            ELSE IF case_sensitive
            THEN contains(ProcessTable[p].name, label.name)
            ELSE contains(to_lowercase(ProcessTable[p].name),
                          to_lowercase(label.name))

\* The search on one record, the three flags resolved in their precedence
Matches(p) ==
    IF label_search
    THEN /\ WellFormed(search)
         /\ \A i \in 1..Len(parse_input(search).labels) :
                ClauseMatches(parse_input(search).labels[i], p)
    ELSE IF regex
    THEN is_match(search, ProcessTable[p].name)
    ELSE IF case_sensitive
    THEN contains(ProcessTable[p].name, search)
    ELSE contains(to_lowercase(ProcessTable[p].name), to_lowercase(search))

\* The strings the flags make regular expressions
RegexTexts ==
    IF ~regex THEN { }
    ELSE IF ~label_search THEN { search }
    ELSE IF Malformed(search) THEN { }
    ELSE { parse_input(search).labels[i].name :
             i \in { j \in 1..Len(parse_input(search).labels) :
                       parse_input(search).labels[j].kind = "Name" } }

\* C6: label_search takes precedence over regex, and regex over the
\* substring test: in label mode the search string is a label query in which
\* the regex flag makes only the name: values regular expressions; otherwise
\* with regex the whole search string is a regular expression on the display
\* name; otherwise it is a substring of the display name.  Only the strings
\* the flags make regular expressions are ever compiled.
C6_ModePrecedence ==
    /\ uiPc = "menu_bar" =>
          SeqSet(processes) = { p \in SeqSet(procs) : Matches(p) }
    /\ panic = "regex" => \E t \in RegexTexts : ~RegexNewOk(t)

\* With both flags set, the "." of an owner: clause stayed a literal
\* character and matched no owner
C6_Witness ==
    /\ uiPc = "menu_bar"
    /\ label_search
    /\ regex
    /\ search = << "o", "w", "n", "e", "r", ":", "." >>
    /\ procs # << >>
    /\ processes = << >>

\* The sort keys of two records compare equal
SameKey(p, q) ==
    CASE sort = "Pid" -> p = q
      [] sort = "Owner" ->
            IF case_sensitive
            THEN OwnerName(System, p) = OwnerName(System, q)
            ELSE to_lowercase(OwnerName(System, p)) = to_lowercase(OwnerName(System, q))
      [] sort = "Name" ->
            IF case_sensitive
            THEN ProcessTable[p].name = ProcessTable[q].name
            ELSE to_lowercase(ProcessTable[p].name) = to_lowercase(ProcessTable[q].name)

\* The sort key of p is smaller than the sort key of q
SmallerKey(p, q) ==
    CASE sort = "Pid" -> p < q
      [] sort = "Owner" ->
            IF case_sensitive
            THEN StrLess(OwnerName(System, p), OwnerName(System, q))
            ELSE StrLess(to_lowercase(OwnerName(System, p)),
                         to_lowercase(OwnerName(System, q)))
      [] sort = "Name" ->
            IF case_sensitive
            THEN StrLess(ProcessTable[p].name, ProcessTable[q].name)
            ELSE StrLess(to_lowercase(ProcessTable[p].name),
                         to_lowercase(ProcessTable[q].name))

Pos(list, p) == CHOOSE i \in 1..Len(list) : list[i] = p

\* C7: the sorted result holds the filtered records in the order of the sort
\* key and direction, and two records whose keys compare equal keep the
\* relative order in which filtered_processes returned them, for every sort
\* column, in Asc and in Desc.
C7_SortIsStable ==
    uiPc = "menu_bar" =>
        LET f == filtered_processes(Self, System).list
        IN  /\ Len(processes) = Len(f)
            /\ SeqSet(processes) = SeqSet(f)
            /\ \A i \in 1..(Len(processes) - 1) :
                   IF order = "Asc"
                   THEN ~SmallerKey(processes[i + 1], processes[i])
                   ELSE ~SmallerKey(processes[i], processes[i + 1])
            /\ \A i, j \in 1..Len(f) :
                   (i < j /\ SameKey(f[i], f[j])) =>
                       Pos(processes, f[i]) < Pos(processes, f[j])

\* A descending sort by name has returned two records whose names differ
\* only in case, so that their keys are equal
C7_Witness ==
    /\ uiPc = "menu_bar"
    /\ sort = "Name"
    /\ order = "Desc"
    /\ ~case_sensitive
    /\ \E i, j \in 1..Len(processes) :
           /\ i < j
           /\ SameKey(processes[i], processes[j])
           /\ ProcessTable[processes[i]].name # ProcessTable[processes[j]].name

\* A case transform of a string: "upper" or "lower"
CaseStr(mode, s) == IF mode = "upper" THEN to_uppercase(s) ELSE to_lowercase(s)

\* The case transform of the values of a label query; the label names, which
\* are no compared text, stay as they are
RECURSIVE CaseQuery(_, _)
CaseQuery(mode, s) ==
    IF s = << >> THEN << >>
    ELSE IF \E l \in DOMAIN LabelNames : StartsWith(s, LabelNames[l])
    THEN LET l == CHOOSE k \in DOMAIN LabelNames : StartsWith(s, LabelNames[k])
             body == Drop(s, Len(LabelNames[l]))
             v == ParseValue(body)
             n == IF v.ok THEN Len(body) - Len(v.rest) ELSE Len(body)
         IN  LabelNames[l] \o CaseStr(mode, SubSeq(body, 1, n))
                 \o CaseQuery(mode, Drop(body, n))
    ELSE CaseStr(mode, << Head(s) >>) \o CaseQuery(mode, Tail(s))

\* The search with the case transform applied to the query text
CaseSelf(mode) ==
    [Self EXCEPT !.search = IF label_search THEN CaseQuery(mode, search)
                            ELSE CaseStr(mode, search)]

\* The system with the case transform applied to the compared fields: the
\* display names and the user names
CaseSystem(mode) ==
    [System EXCEPT
        !.name = [p \in AllPids |-> CaseStr(mode, System.name[p])],
        !.users = [u \in DOMAIN Users |-> CaseStr(mode, Users[u])]]

\* The records filtered_processes returns are the same with the query text
\* and the compared fields in upper case and in lower case
CaseInvariant ==
    \A mode \in {"upper", "lower"} :
        filtered_processes(CaseSelf(mode), CaseSystem(mode))
            = filtered_processes(Self, System)

\* C8 as stated: with case_sensitive = false the match does not change under
\* a case transform of the query text and the compared field, for every
\* query and every combination of the flags.
C8_CaseInvariantInEveryMode == ~case_sensitive => CaseInvariant

\* C8, amended: with case_sensitive = false the match does not change under
\* a case transform of the compared text (the search string, or the value of
\* a clause of a label query) and the compared field, wherever the text is
\* not a regular expression: the regex flag is off, or the label query is
\* malformed or has no name: clause.
C8_CaseInvariantOutsideRegex ==
    (~case_sensitive /\ RegexTexts = { }) => CaseInvariant

\* A case-insensitive substring search in upper case has kept the record
\* whose name is the same letter in lower case
C8_Witness ==
    /\ uiPc = "menu_bar"
    /\ ~case_sensitive
    /\ ~regex
    /\ ~label_search
    /\ search = << "A" >>
    /\ \E i \in 1..Len(processes) : ProcessTable[processes[i]].name = << "a" >>

IsPrefix(a, b) == Len(a) <= Len(b) /\ SubSeq(b, 1, Len(a)) = a

\* A bulk action has run in this frame and the frame goes on or the task
\* manager has killed itself
AfterBulk == bulk # "none" /\ uiPc \in {"table", "killed"}

\* The bulk action ran on the result of this pass, in its order, while the
\* UI thread held the system mutex on the snapshot the pass started with
BulkOnOneSnapshot ==
    /\ sysLock = "ui"
    /\ samplerPc \notin {"remove_dead", "add_new"}
    /\ procs = passSnapshot
    /\ processes = sorted_processes(Self, System).list

\* C9 as stated: a bulk action signals every record of the current filtered
\* result exactly once and no other record, in the current sort order, over
\* one snapshot that the sampler cannot change before the iteration ends.
C9_BulkActionSignalsEveryRecord ==
    AfterBulk => (BulkOnOneSnapshot /\ killed = processes)

\* C9, amended: a bulk action signals the records of the current filtered
\* result in the current sort order, each at most once and no other record,
\* over one snapshot that the sampler cannot change before the iteration
\* ends; it signals all of them unless the result holds the task manager's
\* own process and the signal ends it: the iteration then stops with that
\* record and the records after it are not signalled.
C9_BulkActionUntilSelfKill ==
    AfterBulk =>
        /\ BulkOnOneSnapshot
        /\ IsPrefix(killed, processes)
        /\ \A i, j \in 1..Len(killed) : i # j => killed[i] # killed[j]
        /\ IF FatalToSelf(bulk) /\ SelfPid \in SeqSet(processes)
           THEN /\ uiPc = "killed"
                /\ killed # << >>
                /\ killed[Len(killed)] = SelfPid
           ELSE /\ uiPc = "table"
                /\ killed = processes

\* "Kill all" on a result of two records that starts with the task manager
\* itself has signalled only the first
C9_Witness ==
    /\ AfterBulk
    /\ bulk = "Kill"
    /\ Len(processes) = 2
    /\ killed = << SelfPid >>

\* The UI thread is between the lock of the system mutex and the end of
\* process_list_view
InPass == uiPc \in {"sorted_processes", "menu_bar", "table"}

\* C10: during a filter and sort pass the UI thread holds the system mutex,
\* the sampler is not inside refresh_all, and the snapshot is the one the
\* pass started with.
C10_PassReadsOneSnapshot ==
    InPass =>
        /\ sysLock = "ui"
        /\ samplerPc \notin {"remove_dead", "add_new"}
        /\ procs = passSnapshot

\* The sampler waits for the system mutex while the pass has its result
C10_Witness == uiPc = "menu_bar" /\ samplerPc = "lock" /\ Len(processes) >= 2

\* A step changes the sort key or the direction
SortPairChanges == sort' # sort \/ order' # order

\* C11 as stated: every step that changes the (sort key, direction) pair is
\* a column-header click; no other step, the selection of a view from the
\* menus included, changes it.
C11_OnlyHeaderClickChangesSort ==
    [][SortPairChanges =>
          \E column \in {"Pid", "Owner", "Name"} : Table(column)]_vars

\* C11: every step that changes the (sort key, direction) pair is a
\* column-header click or the selection of a view in the top panel, which
\* replaces the list state by its default (Pid, Asc); sampler steps, edits of
\* the search string and of the mode flags, bulk actions and the steps of a
\* pass leave the pair as it is.
C11_SortChangedByClickOrViewSelection ==
    [][SortPairChanges =>
          \/ \E column \in {"Pid", "Owner", "Name"} : Table(column)
          \/ /\ \E button \in {"Settings", "Processes", "Graphs"} :
                    TopPanel(button)
             /\ sort' = "Pid"
             /\ order' = "Asc"]_vars

\* A pair set by header clicks in two earlier frames has outlived an edit of
\* the search string and a bulk action, with the sampler at the system mutex
C11_Witness ==
    /\ sort = "Name"
    /\ order = "Desc"
    /\ uiPc = "table"
    /\ search # << >>
    /\ bulk = "Continue"
    /\ samplerPc = "lock"

\* The threads: the UI thread, the sampler, and the graph threads by number
Threads ==
    {<< "ui", 0 >>, << "sampler", 0 >>} \cup {<< "graph", i >> : i \in GraphThreads}

\* The mutexes: system and settings of the TaskManager, points and secs of
\* every GraphsState
Mutexes ==
    {<< "system", 0 >>, << "settings", 0 >>}
    \cup {<< "points", i >> : i \in GraphThreads}
    \cup {<< "secs", i >> : i \in GraphThreads}

\* The threads that hold mutex m: none or one
Holders(m) ==
    CASE m[1] = "system" ->
            IF sysLock = "graph"
            THEN {<< "graph", i >> : i \in {j \in GraphThreads : GraphHolds(j, "system")}}
            ELSE IF sysLock = "free" THEN {} ELSE {<< sysLock, 0 >>}
      [] m[1] = "settings" ->
            IF settingsLock = "free" THEN {} ELSE {<< settingsLock, 0 >>}
      [] m[1] = "points" ->
            IF pointsLock[m[2]] = "graph" THEN {<< "graph", m[2] >>}
            ELSE IF pointsLock[m[2]] = "free" THEN {} ELSE {<< "ui", 0 >>}
      [] m[1] = "secs" ->
            IF secsLock[m[2]] = "graph" THEN {<< "graph", m[2] >>}
            ELSE IF secsLock[m[2]] = "free" THEN {} ELSE {<< "ui", 0 >>}

\* The mutexes thread t holds
Held(t) == {m \in Mutexes : t \in Holders(m)}

\* The mutex whose lock() thread t is at: none or one
Wanted(t) ==
    IF ~Alive THEN {}
    ELSE CASE t[1] = "ui" ->
                 IF uiPc = "view" /\ view = "Processes" THEN {<< "system", 0 >>}
                 ELSE IF uiPc = "view" /\ view = "Settings" THEN {<< "settings", 0 >>}
                 ELSE IF uiPc = "lock_points" THEN {<< "points", cur >>}
                 ELSE IF uiPc = "lock_secs" THEN {<< "secs", cur >>}
                 ELSE {}
           [] t[1] = "sampler" ->
                 IF samplerPc = "interval" THEN {<< "settings", 0 >>}
                 ELSE IF samplerPc = "lock" THEN {<< "system", 0 >>}
                 ELSE {}
           [] t[1] = "graph" ->
                 IF graphPc[t[2]] = "system" THEN {<< "system", 0 >>}
                 ELSE IF graphPc[t[2]] \in {"points", "secs"}
                      THEN {<< graphPc[t[2]], t[2] >>}
                 ELSE {}

\* The threads that hold the mutex thread t is waiting for
WaitsFor(t) == UNION {Holders(m) : m \in Wanted(t)}

\* Every thread of D holds a mutex and waits for one held by another thread
\* of D
Deadlocked(D) ==
    /\ D # {}
    /\ \A t \in D :
          /\ Held(t) # {}
          /\ WaitsFor(t) \cap (D \ {t}) # {}

\* One order of the four kinds of mutex
LockOrder == << "system", "points", "secs", "settings" >>

LockRank(m) == CHOOSE k \in 1 .. Len(LockOrder) : LockOrder[k] = m[1]

\* C12: in every interleaving of the UI thread, the sampler and the graph
\* threads no set of threads is deadlocked on the system, settings, points
\* and secs mutexes; every thread that is at a lock() while it holds a mutex
\* holds only mutexes that come earlier in one fixed order; and the sampler
\* holds the settings mutex only while it reads the interval, not while it
\* sleeps, takes the system mutex or refreshes.
C12_NoDeadlockOnMutexes ==
    /\ \A D \in SUBSET Threads : ~Deadlocked(D)
    /\ \A t \in Threads : \A h \in Held(t) : \A w \in Wanted(t) :
          LockRank(h) < LockRank(w)
    /\ settingsLock = "sampler" => samplerPc = "read_interval"

\* The sampler waits for the system mutex held by a graph thread, which
\* waits for the points held by the UI thread, which is at secs.lock()
C12_Witness ==
    /\ samplerPc = "lock"
    /\ cur # NoThread
    /\ << "graph", cur >> \in WaitsFor(<< "sampler", 0 >>)
    /\ << "ui", 0 >> \in WaitsFor(<< "graph", cur >>)
    /\ uiPc = "lock_secs"

====
